---- MODULE Spec2Model ----
(***************************************************************************)
(* A model of src/src/decorators.py: the decorator builder `decorator`,    *)
(* the parameter-collecting `_partial`, the function-accepting `_wrapper`, *)
(* `_update_adapter` and the convenience operation `adapter`.              *)
(*                                                                         *)
(* Python objects are identified by an integer id; a dict is a TLA+        *)
(* function from names to values; a freshly created dict gets an id that   *)
(* no live dict has, so that object identity (`is`) can be told apart      *)
(* from equality of content (`==`).                                        *)
(***************************************************************************)
EXTENDS Integers, Sequences, FiniteSets, TLC

(***************************************************************************)
(* Bounds of the model.                                                    *)
(***************************************************************************)
\* the most positional arguments a parameter-collecting call is given
MaxArgs == 3
\* the most wrapper constructs that are kept
MaxConstructs == 2

(***************************************************************************)
(* The objects the calls are made with.                                    *)
(***************************************************************************)
\* Python's None, as an object id
None == 0
\* no behavior supplied (wrapper=None)
NoWrapper == "None"

\* the parameter names in use; "c" is declared by no behavior
Names == {"a", "b", "c"}

\* the wrapper behaviors; "wrapper" is the one adapter() defines itself
UserBehaviors == {"plain", "one", "two", "short"}

\* the functions that get decorated
Funcs == {100, 101}
\* the adapter targets
Targets == {200, 201}

AttrNames == {"__module__", "__name__", "__qualname__"}

\* getattr over the objects: the attributes each object possesses.
\* Object 101 and target 201 have no __qualname__ (a function of a Python
\* without qualified names, or another callable).
ObjAttrs(o) ==
    CASE o = 100 -> [x \in AttrNames |->
                        IF x = "__module__" THEN "app" ELSE "f"]
      [] o = 101 -> [x \in {"__module__", "__name__"} |->
                        IF x = "__module__" THEN "app" ELSE "g"]
      [] o = 200 -> [x \in AttrNames |->
                        IF x = "__module__" THEN "lib"
                        ELSE IF x = "__name__" THEN "t" ELSE "T.t"]
      [] o = 201 -> [x \in {"__module__", "__name__"} |->
                        IF x = "__module__" THEN "lib2" ELSE "u"]
      [] OTHER   -> [x \in {} |-> ""]

\* the identity attributes of a wrapper behavior
BehaviorAttrs(w) ==
    [x \in AttrNames |->
        IF x = "__module__" THEN IF w = "wrapper" THEN "decorators" ELSE "userlib"
        ELSE IF x = "__name__" THEN w
        ELSE IF w = "wrapper" THEN "adapter.<locals>.wrapper" ELSE w]

\* the identity attributes of the two internal helpers before @wraps
HelperAttrs(helper) ==
    [x \in AttrNames |->
        IF x = "__module__" THEN "decorators"
        ELSE IF x = "__name__" THEN helper
        ELSE IF helper = "_partial" THEN "decorator.<locals>._partial"
        ELSE "decorator.<locals>._wrapper"]

EmptyDict == [x \in {} |-> 0]

(***************************************************************************)
(* Pure helpers.                                                           *)
(***************************************************************************)
WRAPPER_ARGLIST == <<"wrapped", "instance", "args", "kwargs">>

\* getargspec(wrapper).args
getargspec(w) ==
    CASE w = "plain"   -> <<"wrapped", "instance", "args", "kwargs">>
      [] w = "wrapper" -> <<"wrapped", "instance", "args", "kwargs">>
      [] w = "one"     -> <<"wrapped", "instance", "args", "kwargs", "a">>
      [] w = "two"     -> <<"wrapped", "instance", "args", "kwargs", "a", "b">>
      [] w = "short"   -> <<"wrapped", "args", "kwargs">>

\* the elements of a sequence
Range(seq) == {seq[i] : i \in DOMAIN seq}

\* s[n:]
SliceFrom(s, n) ==
    IF n >= Len(s) THEN << >> ELSE [i \in 1..(Len(s) - n) |-> s[i + n]]

\* expected_names = complete_arglist[len(expected_arglist):]
ExpectedNames(w) == SliceFrom(getargspec(w), Len(WRAPPER_ARGLIST))

\* d.update(k) on a copy of d
DictUpdate(d, k) ==
    [n \in (DOMAIN d) \cup (DOMAIN k) |-> IF n \in DOMAIN k THEN k[n] ELSE d[n]]

\* d[name] = value
DictSet(d, name, value) ==
    [n \in (DOMAIN d) \cup {name} |-> IF n = name THEN value ELSE d[n]]

\* the dict without one key
DictWithout(d, name) == [n \in (DOMAIN d) \ {name} |-> d[n]]


(***************************************************************************)
(* The inputs the calls draw from.                                         *)
(***************************************************************************)
\* the value a default is given, per name
DefaultValue(n) == IF n = "a" THEN 1 ELSE IF n = "b" THEN 2 ELSE 3

\* **default_params of a builder call
DefaultSets == {[n \in S |-> DefaultValue(n)] : S \in SUBSET Names}

\* *decorator_args of a parameter-collecting call: up to MaxArgs values, or
\* one function (the decorator applied bare to a function)
PosArgs ==
    UNION {[1..k -> {9}] : k \in 0..MaxArgs} \cup {<<f>> : f \in Funcs}

\* **decorator_kwargs of a parameter-collecting call
KwArgs == UNION {[S -> {7, 9}] : S \in SUBSET Names}

(***************************************************************************)
(* State.                                                                  *)
(***************************************************************************)
VARIABLES
    deferred,    \* the deferred builder held (a functools.partial), if any
    dec,         \* the decorator held, if any
    inner,       \* the inner decorator held (a Shape B _wrapper closure), if any
    constructs,  \* the wrapper constructs produced so far, in order
    last         \* the last call made: its inputs and its outcome

vars == <<deferred, dec, inner, constructs, last>>

NoParams == [id |-> None, value |-> EmptyDict]

NoDeferred == [held |-> FALSE, keywords |-> EmptyDict,
               given |-> [target |-> None, defaults |-> EmptyDict]]

NoDec == [shape |-> "none", wrapper |-> NoWrapper, expected_names |-> << >>,
          default_params |-> EmptyDict, target |-> None,
          attrs |-> [x \in {} |-> ""]]

NoInner == [held |-> FALSE, wrapper |-> NoWrapper, target |-> None,
            params |-> NoParams]

NoCall == [op |-> "none", wrapper |-> NoWrapper, target |-> None,
           defaults |-> EmptyDict, args |-> << >>, kwargs |-> EmptyDict,
           func |-> None, error |-> "", named |-> {}, returned |-> "none"]

Init ==
    /\ deferred = NoDeferred
    /\ dec = NoDec
    /\ inner = NoInner
    /\ constructs = << >>
    /\ last = NoCall

(***************************************************************************)
(* decorator(): validation of the defaults against the behavior.           *)
(***************************************************************************)
\* the loop of lines 65-71 from position i on, then the check of lines 72-75
RECURSIVE ValidateFrom(_, _, _)
ValidateFrom(expected_names, i, received_names) ==
    IF i > Len(expected_names)
    THEN IF received_names # {}
         THEN [error |-> "UnexpectedDefaultParameters", named |-> received_names]
         ELSE [error |-> "", named |-> {}]
    ELSE IF expected_names[i] \notin received_names
         THEN [error |-> "MissingDefaultParameter", named |-> {expected_names[i]}]
         ELSE ValidateFrom(expected_names, i + 1,
                           received_names \ {expected_names[i]})

\* a variant of Validate that looks for surplus defaults before it looks
\* for missing ones
ValidateSurplusFirst(wrapper, default_params) ==
    IF (DOMAIN default_params) \ {ExpectedNames(wrapper)[i] :
                                    i \in DOMAIN ExpectedNames(wrapper)} # {}
    THEN [error |-> "UnexpectedDefaultParameters",
          named |-> (DOMAIN default_params)
                        \ {ExpectedNames(wrapper)[i] :
                             i \in DOMAIN ExpectedNames(wrapper)}]
    ELSE ValidateFrom(ExpectedNames(wrapper), 1, DOMAIN default_params)

\* a variant of Validate without the check of lines 72-75
ValidateMissingOnly(wrapper, default_params) ==
    LET v == ValidateFrom(ExpectedNames(wrapper), 1, DOMAIN default_params) IN
    IF v.error = "UnexpectedDefaultParameters"
    THEN [error |-> "", named |-> {}]
    ELSE v

\* received_names = set(default_params.keys()), then the two passes
Validate(wrapper, default_params) ==
    ValidateFrom(ExpectedNames(wrapper), 1, DOMAIN default_params)

\* a variant of Wraps for a helper left undecorated
WrapsNothing(wrapper, helper) == HelperAttrs(helper)

\* functools.wraps(wrapper) applied to a helper: the helper takes the
\* behavior's __module__, __name__ and __qualname__
Wraps(wrapper, helper) ==
    DictUpdate(HelperAttrs(helper), BehaviorAttrs(wrapper))

\* a variant of HasParameters with >= for >
HasParametersOffByOne(wrapper) ==
    Len(getargspec(wrapper)) >= Len(WRAPPER_ARGLIST)

\* len(complete_arglist) > len(expected_arglist)
HasParameters(wrapper) == Len(getargspec(wrapper)) > Len(WRAPPER_ARGLIST)

\* the decorator returned at line 146 (Shape B) or line 158 (Shape A)
MakeDecorator(wrapper, target, default_params) ==
    IF HasParameters(wrapper)
    THEN [shape |-> "B", wrapper |-> wrapper,
          expected_names |-> ExpectedNames(wrapper),
          default_params |-> default_params, target |-> target,
          attrs |-> Wraps(wrapper, "_partial")]
    ELSE [shape |-> "A", wrapper |-> wrapper,
          expected_names |-> ExpectedNames(wrapper),
          default_params |-> default_params, target |-> target,
          attrs |-> Wraps(wrapper, "_wrapper")]

\* a variant of Partial that keeps the defaults and forgets the target
PartialWithoutTarget(target, default_params) == default_params

\* partial(decorator, target=target, **default_params): the keywords kept
Partial(target, default_params) == DictSet(default_params, "target", target)

\* the binding of a partial's keywords to decorator's signature
\* (wrapper=None, target=None, **default_params)
BoundTarget(keywords) ==
    IF "target" \in DOMAIN keywords THEN keywords["target"] ELSE None

BoundDefaults(keywords) == DictWithout(keywords, "target")

\* the body of decorator(wrapper, target, **default_params): what it raises
\* or returns
DecoratorBody(wrapper, target, default_params) ==
    IF wrapper # NoWrapper
    THEN LET v == Validate(wrapper, default_params) IN
         IF v.error # ""
         THEN [error |-> v.error, named |-> v.named, returned |-> "none",
               decorator |-> NoDec, keywords |-> EmptyDict]
         ELSE [error |-> "", named |-> {}, returned |-> "decorator",
               decorator |-> MakeDecorator(wrapper, target, default_params),
               keywords |-> EmptyDict]
    ELSE [error |-> "", named |-> {}, returned |-> "deferred",
          decorator |-> NoDec,
          keywords |-> Partial(target, default_params)]


(***************************************************************************)
(* _partial(): the merge of the supplied parameters over the defaults.     *)
(***************************************************************************)
\* the loop of lines 122-128 from position i on: the keyword dict with the
\* positional arguments added under their names, or the name that collides
RECURSIVE PositionalFrom(_, _, _, _)
PositionalFrom(expected_names, decorator_args, i, decorator_kwargs) ==
    IF i > Len(decorator_args)
    THEN [error |-> "", named |-> {}, kwargs |-> decorator_kwargs]
    ELSE IF expected_names[i] \in DOMAIN decorator_kwargs
         THEN [error |-> "UnexpectedParameters", named |-> {expected_names[i]},
               kwargs |-> decorator_kwargs]
         ELSE PositionalFrom(expected_names, decorator_args, i + 1,
                             DictSet(decorator_kwargs, expected_names[i],
                                     decorator_args[i]))

\* a variant of UnexpectedParams that lets every keyword through
UnexpectedParamsIgnored(default_params, decorator_kwargs) == {}

\* unexpected_params of lines 110-113
UnexpectedParams(default_params, decorator_kwargs) ==
    {name \in DOMAIN decorator_kwargs : name \notin DOMAIN default_params}

\* a variant of Overlay in which the defaults win
OverlayDefaultsWin(default_params, decorator_kwargs) ==
    DictUpdate(decorator_kwargs, default_params)

\* complete_params.update(decorator_kwargs) on complete_params =
\* dict(default_params), lines 120 and 130
Overlay(default_params, decorator_kwargs) ==
    DictUpdate(default_params, decorator_kwargs)

\* the body of _partial up to line 130: the error raised, or complete_params
Merge(expected_names, default_params, decorator_args, decorator_kwargs) ==
    IF Len(decorator_args) > Len(expected_names)
    THEN [error |-> "UnexpectedParameters", named |-> {}, complete |-> EmptyDict]
    ELSE IF UnexpectedParams(default_params, decorator_kwargs) # {}
    THEN [error |-> "UnexpectedParameters",
          named |-> UnexpectedParams(default_params, decorator_kwargs),
          complete |-> EmptyDict]
    ELSE LET p == PositionalFrom(expected_names, decorator_args, 1,
                                 decorator_kwargs) IN
         IF p.error # ""
         THEN [error |-> p.error, named |-> p.named, complete |-> EmptyDict]
         ELSE [error |-> "", named |-> {},
               complete |-> Overlay(default_params, p.kwargs)]

\* the ids of the parameter dicts that are alive: the one the held inner
\* decorator closes over and those the constructs hold
LiveIds ==
    ((IF inner.held THEN {inner.params.id} ELSE {})
        \cup {constructs[i].params.id : i \in DOMAIN constructs}) \ {None}

\* the id of a newly created object: one no live object has
FreshId(live) == CHOOSE n \in 1..(Cardinality(live) + 1) : n \notin live

(***************************************************************************)
(* _wrapper(): the construction of the wrapper construct.                  *)
(***************************************************************************)
\* FunctionWrapper(wrapped=func, wrapper=wrapper, params=params): a proxy
\* that owns the three and reports the wrapped function's attributes
FunctionWrapper(wrapped, wrapper, params) ==
    [wrapped |-> wrapped, wrapper |-> wrapper, params |-> params,
     attrs |-> ObjAttrs(wrapped)]

\* a variant of UpdateAdapterAttrs that sets only what the construct lacks
UpdateAdapterNoOverwrite(attrs, target) ==
    [x \in (DOMAIN attrs) \cup (DOMAIN ObjAttrs(target)) |->
        IF x \in DOMAIN attrs THEN attrs[x] ELSE ObjAttrs(target)[x]]

\* _update_adapter(wrapper, target): the construct's attributes after it
UpdateAdapterAttrs(attrs, target) ==
    [x \in (DOMAIN attrs) \cup (DOMAIN ObjAttrs(target)) |->
        IF x \in DOMAIN ObjAttrs(target) THEN ObjAttrs(target)[x] ELSE attrs[x]]

UpdateAdapter(result, target) ==
    [result EXCEPT !.attrs = UpdateAdapterAttrs(result.attrs, target)]

\* the body of either _wrapper(func): lines 136-140 and 154-157
WrapperBody(func, wrapper, target, params) ==
    LET result == FunctionWrapper(func, wrapper, params) IN
    IF target # None THEN UpdateAdapter(result, target) ELSE result


(***************************************************************************)
(* The calls.  A call that raises returns nothing and changes nothing; the *)
(* exception is not caught, so that no call is made after it.              *)
(***************************************************************************)
\* no call has raised so far
Running == last.error = ""

Raised(call) ==
    /\ last' = call
    /\ UNCHANGED <<deferred, dec, inner, constructs>>

\* what a call of decorator() leaves behind, given what its body did; the
\* record of the call keeps the target and the defaults the builder was given
\* (for a deferred builder: when it was created).  One decorator is held at a
\* time: a newly built one takes the place of the one held, whose inner
\* decorator is let go; the constructs already produced stay.
BuilderOutcome(op, wrapper, target, default_params, given, out) ==
    LET call == [NoCall EXCEPT !.op = op, !.wrapper = wrapper,
                               !.target = target, !.defaults = default_params,
                               !.error = out.error, !.named = out.named,
                               !.returned = out.returned] IN
    IF out.error # ""
    THEN Raised(call)
    ELSE /\ last' = call
         /\ dec' = IF out.returned = "decorator" THEN out.decorator ELSE dec
         /\ inner' = IF out.returned = "decorator" THEN NoInner ELSE inner
         /\ deferred' = IF out.returned = "deferred"
                        THEN [held |-> TRUE, keywords |-> out.keywords,
                              given |-> given]
                        ELSE deferred
         /\ UNCHANGED constructs

\* decorator(wrapper, target=target, **default_params), called directly
CallDecorator(wrapper, target, default_params) ==
    /\ Running
    /\ BuilderOutcome("decorator", wrapper, target, default_params,
          [target |-> target, defaults |-> default_params],
          DecoratorBody(wrapper, target, default_params))

\* the deferred builder called with the behavior, or once more without one:
\* partial.__call__ passes its keywords on to decorator()
CallDeferred(wrapper) ==
    /\ Running
    /\ deferred.held
    /\ BuilderOutcome("deferred", wrapper, deferred.given.target,
                      deferred.given.defaults, deferred.given,
                      DecoratorBody(wrapper, BoundTarget(deferred.keywords),
                                    BoundDefaults(deferred.keywords)))

\* adapter(target): decorator(target=target) applied to its own behavior
CallAdapter(target) ==
    LET first == DecoratorBody(NoWrapper, target, EmptyDict) IN
    /\ Running
    /\ BuilderOutcome("adapter", "wrapper", target, EmptyDict, deferred.given,
          DecoratorBody("wrapper", BoundTarget(first.keywords),
                        BoundDefaults(first.keywords)))

\* a variant of CallPartial that, given one function and nothing else,
\* wraps it with the defaults at once
CallPartialBare(decorator_args, decorator_kwargs) ==
    /\ Running
    /\ dec.shape = "B"
    /\ IF /\ Len(decorator_args) = 1
          /\ decorator_args[1] \in Funcs
          /\ decorator_kwargs = EmptyDict
       THEN /\ Len(constructs) < MaxConstructs
            /\ constructs' =
                  Append(constructs,
                         WrapperBody(decorator_args[1], dec.wrapper, dec.target,
                                     [id |-> FreshId(LiveIds),
                                      value |-> dec.default_params]))
            /\ last' = [NoCall EXCEPT !.op = "_partial",
                                      !.wrapper = dec.wrapper,
                                      !.target = dec.target,
                                      !.defaults = dec.default_params,
                                      !.args = decorator_args,
                                      !.kwargs = decorator_kwargs,
                                      !.returned = "construct"]
            /\ UNCHANGED <<deferred, dec, inner>>
       ELSE LET m == Merge(dec.expected_names, dec.default_params,
                           decorator_args, decorator_kwargs)
                call == [NoCall EXCEPT !.op = "_partial",
                                       !.wrapper = dec.wrapper,
                                       !.target = dec.target,
                                       !.defaults = dec.default_params,
                                       !.args = decorator_args,
                                       !.kwargs = decorator_kwargs,
                                       !.error = m.error, !.named = m.named,
                                       !.returned = IF m.error = ""
                                                    THEN "inner" ELSE "none"] IN
            IF m.error # ""
            THEN Raised(call)
            ELSE /\ last' = call
                 /\ inner' = [held |-> TRUE, wrapper |-> dec.wrapper,
                              target |-> dec.target,
                              params |-> [id |-> FreshId(LiveIds),
                                          value |-> m.complete]]
                 /\ UNCHANGED <<deferred, dec, constructs>>

\* the Shape B decorator called: _partial(*decorator_args, **decorator_kwargs)
CallPartial(decorator_args, decorator_kwargs) ==
    /\ Running
    /\ dec.shape = "B"
    /\ LET m == Merge(dec.expected_names, dec.default_params,
                      decorator_args, decorator_kwargs)
           call == [NoCall EXCEPT !.op = "_partial", !.wrapper = dec.wrapper,
                                  !.target = dec.target,
                                  !.defaults = dec.default_params,
                                  !.args = decorator_args,
                                  !.kwargs = decorator_kwargs,
                                  !.error = m.error, !.named = m.named,
                                  !.returned = IF m.error = "" THEN "inner"
                                               ELSE "none"] IN
       IF m.error # ""
       THEN Raised(call)
       ELSE /\ last' = call
            /\ inner' = [held |-> TRUE, wrapper |-> dec.wrapper,
                         target |-> dec.target,
                         params |-> [id |-> FreshId(LiveIds),
                                     value |-> m.complete]]
            /\ UNCHANGED <<deferred, dec, constructs>>

\* the inner decorator of a Shape B decorator applied to a function
CallInner(func) ==
    /\ Running
    /\ inner.held
    /\ Len(constructs) < MaxConstructs
    /\ constructs' = Append(constructs,
                            WrapperBody(func, inner.wrapper, inner.target,
                                        inner.params))
    /\ last' = [NoCall EXCEPT !.op = "inner", !.wrapper = inner.wrapper,
                              !.target = inner.target, !.func = func,
                              !.returned = "construct"]
    /\ UNCHANGED <<deferred, dec, inner>>

\* the Shape A decorator applied to a function
CallWrapper(func) ==
    /\ Running
    /\ dec.shape = "A"
    /\ Len(constructs) < MaxConstructs
    /\ constructs' = Append(constructs,
                            WrapperBody(func, dec.wrapper, dec.target, NoParams))
    /\ last' = [NoCall EXCEPT !.op = "_wrapper", !.wrapper = dec.wrapper,
                              !.target = dec.target, !.func = func,
                              !.returned = "construct"]
    /\ UNCHANGED <<deferred, dec, inner>>

\* the builder alone: every behavior, target and set of defaults, with the
\* behavior given at once or withheld, and the adapter operation
NextBuilder ==
    \/ \E w \in UserBehaviors \cup {NoWrapper}, t \in Targets \cup {None},
          dp \in DefaultSets : CallDecorator(w, t, dp)
    \/ \E w \in UserBehaviors \cup {NoWrapper} : CallDeferred(w)
    \/ \E t \in Targets \cup {None} : CallAdapter(t)

SpecBuilder == Init /\ [][NextBuilder]_vars

\* the merge: the behaviors with parameters, every set of defaults and
\* every parameter-collecting call
NextMerge ==
    \/ \E w \in {"one", "two"}, dp \in DefaultSets : CallDecorator(w, None, dp)
    \/ \E a \in PosArgs, k \in KwArgs : CallPartial(a, k)

SpecMerge == Init /\ [][NextMerge]_vars

\* the keyword arguments of the calls of NextUse: none, a known name, an
\* unknown name
UseKwArgs == {k \in KwArgs : DOMAIN k \in {{}, {"a"}, {"c"}}}

\* the two steps of a parameterized decorator: parameter-collecting calls
\* and the application of the inner decorator they return, repeated
NextUse ==
    \/ \E dp \in DefaultSets : CallDecorator("two", None, dp)
    \/ \E a \in PosArgs \ {<<101>>}, k \in UseKwArgs : CallPartial(a, k)
    \/ CallInner(100)

SpecUse == Init /\ [][NextUse]_vars

\* the defaults a behavior asks for
DefaultsOf(w) == [n \in Range(ExpectedNames(w)) |-> DefaultValue(n)]

\* decorators of both shapes, with and without an adapter target, applied
\* to functions with the defaults left as they are
NextApply ==
    \/ \E w \in {"plain", "short", "one"}, t \in {201, None} :
          CallDecorator(w, t, DefaultsOf(w))
    \/ \E t \in {201, None} : CallAdapter(t)
    \/ CallPartial(<< >>, EmptyDict)
    \/ \E f \in Funcs : CallInner(f)
    \/ \E f \in Funcs : CallWrapper(f)

SpecApply == Init /\ [][NextApply]_vars

(***************************************************************************)
(* Properties.                                                             *)
(***************************************************************************)
\* the construct produced last
Latest == constructs[Len(constructs)]

\* a call of the builder that was given a behavior
BehaviorGiven ==
    /\ last.op \in {"decorator", "deferred", "adapter"}
    /\ last.wrapper # NoWrapper

\* the extra parameters of the behavior of the last call that have no default
Absent ==
    {i \in DOMAIN ExpectedNames(last.wrapper) :
        ExpectedNames(last.wrapper)[i] \notin DOMAIN last.defaults}

\* the defaults of the last call that the behavior does not declare
Surplus == (DOMAIN last.defaults) \ Range(ExpectedNames(last.wrapper))

\* C1: after a successful parameter-collecting call with expected names E,
\* defaults D, positional arguments p and keyword arguments K, the
\* CompleteParameterSet has exactly the keys of D and maps E[i] to p[i],
\* every name of K to its value in K and every other name to its default
C1_CompleteParameterSet ==
    (last.op = "_partial" /\ last.error = "") =>
        LET E == ExpectedNames(last.wrapper)
            D == last.defaults
            p == last.args
            K == last.kwargs
            complete == inner.params.value IN
        /\ inner.held
        /\ Len(p) <= Len(E)
        /\ DOMAIN complete = DOMAIN D
        /\ \A i \in DOMAIN p : complete[E[i]] = p[i]
        /\ \A n \in DOMAIN K : complete[n] = K[n]
        /\ \A n \in DOMAIN D :
              (n \notin DOMAIN K /\ ~(\E i \in DOMAIN p : E[i] = n))
                  => complete[n] = D[n]
        /\ (E = <<"a", "b">> /\ p = << >> /\ K = EmptyDict)
              => complete = [n \in {"a", "b"} |-> IF n = "a" THEN 1 ELSE 2]
        /\ (E = <<"a", "b">> /\ p = <<9>> /\ K = EmptyDict)
              => complete = [n \in {"a", "b"} |-> IF n = "a" THEN 9 ELSE 2]
        /\ (E = <<"a", "b">> /\ p = << >> /\ K = [n \in {"a"} |-> 9])
              => complete = [n \in {"a", "b"} |-> IF n = "a" THEN 9 ELSE 2]

\* C1 witness: (9,) with keyword b=7 over the defaults {a:1, b:2}
C1_Witness ==
    /\ last.op = "_partial" /\ last.error = ""
    /\ last.args = <<9>> /\ last.kwargs = [n \in {"b"} |-> 7]
    /\ inner.params.value = [n \in {"a", "b"} |-> IF n = "a" THEN 9 ELSE 7]

\* the three conditions under which a parameter-collecting call must fail
MustFail(E, D, p, K) ==
    \/ Len(p) > Len(E)
    \/ \E n \in DOMAIN K : n \notin DOMAIN D
    \/ \E i \in DOMAIN p : i <= Len(E) /\ E[i] \in DOMAIN K

\* C2: a parameter-collecting call fails with UnexpectedParameters exactly
\* when too many positional arguments, an unknown keyword or a name given
\* both ways is supplied; the failing call returns no inner decorator and
\* neither replaces the inner decorator held nor adds a construct; the
\* application of an inner decorator never fails
C2_UnexpectedParameters ==
    /\ [](/\ last.op = "_partial" =>
                /\ last.error \in {"", "UnexpectedParameters"}
                /\ (last.error = "UnexpectedParameters") <=>
                      MustFail(ExpectedNames(last.wrapper), last.defaults,
                               last.args, last.kwargs)
                /\ last.error # "" => last.returned = "none"
                /\ last.error = "" => (last.returned = "inner" /\ inner.held)
          /\ last.op = "inner" => (last.error = "" /\ last.returned = "construct")
          /\ last.error = "UnexpectedParameters" => last.op = "_partial")
    /\ [][(last'.op = "_partial" /\ last'.error # "")
             => (inner' = inner /\ constructs' = constructs)]_vars

\* C2 witness: (9,) together with keyword a=9 is refused
C2_Witness ==
    /\ last.op = "_partial"
    /\ last.args = <<9>> /\ last.kwargs = [n \in {"a"} |-> 9]
    /\ last.error = "UnexpectedParameters" /\ last.named = {"a"}
    /\ last.returned = "none"

\* C3: when the behavior declares an extra parameter that has no default,
\* building fails with MissingDefaultParameter naming the first such
\* parameter in declaration order, also when there are surplus defaults
C3_MissingDefaultParameter ==
    (BehaviorGiven /\ Absent # {}) =>
        /\ last.error = "MissingDefaultParameter"
        /\ last.named = {ExpectedNames(last.wrapper)[
                            CHOOSE i \in Absent : \A j \in Absent : i <= j]}
        /\ last.returned = "none"

\* C3 witness: behavior (a, b) built with the defaults {c: 3}: both extra
\* parameters are absent and there is a surplus name
C3_Witness ==
    /\ BehaviorGiven /\ last.wrapper = "two"
    /\ DOMAIN last.defaults = {"c"}
    /\ last.error = "MissingDefaultParameter" /\ last.named = {"a"}

\* C4 as stated: whenever the defaults contain a name the behavior does not
\* declare, building fails with UnexpectedDefaultParameters naming it
C4_AsStated ==
    (BehaviorGiven /\ Surplus # {}) =>
        /\ last.error = "UnexpectedDefaultParameters"
        /\ Surplus \subseteq last.named

\* C4 amended: when the defaults contain a name the behavior does not
\* declare and every extra parameter of the behavior has a default,
\* building fails with UnexpectedDefaultParameters naming exactly the
\* surplus names; when an extra parameter has no default as well, it fails
\* with MissingDefaultParameter instead
C4_UnexpectedDefaultParameters ==
    (BehaviorGiven /\ Surplus # {}) =>
        /\ Absent = {} => (/\ last.error = "UnexpectedDefaultParameters"
                           /\ last.named = Surplus
                           /\ last.returned = "none")
        /\ Absent # {} => last.error = "MissingDefaultParameter"

\* C4 witness: behavior (a) built with the defaults {a: 1, c: 3}
C4_Witness ==
    /\ BehaviorGiven /\ last.wrapper = "one"
    /\ DOMAIN last.defaults = {"a", "c"}
    /\ last.error = "UnexpectedDefaultParameters" /\ last.named = {"c"}

\* C5: when the extra parameter names of the behavior are exactly the keys
\* of the defaults, building succeeds and the decorator returned, of either
\* shape, has the behavior's name, qualified name and module, not those of
\* the internal helper
C5_BuildSucceeds ==
    (BehaviorGiven /\ Range(ExpectedNames(last.wrapper)) = DOMAIN last.defaults) =>
        /\ last.error = ""
        /\ last.returned = "decorator"
        /\ dec.shape \in {"A", "B"}
        /\ dec.wrapper = last.wrapper
        /\ DOMAIN dec.attrs = AttrNames
        /\ \A x \in AttrNames : dec.attrs[x] = BehaviorAttrs(last.wrapper)[x]
        /\ \A x \in {"__name__", "__qualname__"} :
              /\ dec.attrs[x] # HelperAttrs("_partial")[x]
              /\ dec.attrs[x] # HelperAttrs("_wrapper")[x]

\* C5 witness: the Shape B decorator of behavior (a, b) with {a: 1, b: 2}
C5_Witness ==
    /\ BehaviorGiven /\ last.wrapper = "two"
    /\ DOMAIN last.defaults = {"a", "b"}
    /\ dec.shape = "B" /\ dec.attrs["__name__"] = "two"

\* C6 as stated: no two constructs hold the same CompleteParameterSet
\* object, whichever applications produced them
C6_AsStated ==
    \A i, j \in DOMAIN constructs :
        (i # j /\ constructs[i].params.id # None)
            => constructs[i].params.id # constructs[j].params.id

\* the attribute x of an object, or "" when the object has none
Attr(attrs, x) == IF x \in DOMAIN attrs THEN attrs[x] ELSE ""

\* C7: the decorator holds the adapter target the builder was given; a
\* construct produced by a decorator with an adapter target reports, for
\* each of module, name and qualified name the target has, the target's
\* value, and for the others what the wrapped function gives; without an
\* adapter target all three are what the wrapped function gives
C7_AdapterMetadata ==
    /\ (BehaviorGiven /\ last.returned = "decorator") => dec.target = last.target
    /\ inner.held => inner.target = dec.target
    /\ last.op \in {"inner", "_wrapper"} =>
          /\ last.target = dec.target
          /\ \A x \in AttrNames :
                IF last.target # None /\ x \in DOMAIN ObjAttrs(last.target)
                THEN /\ x \in DOMAIN Latest.attrs
                     /\ Latest.attrs[x] = ObjAttrs(last.target)[x]
                ELSE /\ (x \in DOMAIN Latest.attrs) <=>
                            (x \in DOMAIN ObjAttrs(last.func))
                     /\ Attr(Latest.attrs, x) = Attr(ObjAttrs(last.func), x)

\* C7 witness: adapter(201) applied to function 100: module and name are
\* the target's, the qualified name, which the target lacks, is the
\* function's
C7_Witness ==
    /\ last.op = "_wrapper" /\ last.wrapper = "wrapper"
    /\ last.target = 201 /\ last.func = 100
    /\ Latest.attrs["__name__"] = "u"
    /\ Latest.attrs["__module__"] = "lib2"
    /\ Latest.attrs["__qualname__"] = "f"

\* C8: a builder call without a behavior validates nothing, returns a
\* deferred builder holding the defaults and the adapter it was given and
\* leaves the collecting state only when called with the behavior; the
\* outcome of that call is the outcome of one builder call given the
\* behavior, the same defaults and the same adapter together
C8_DeferredBuilder ==
    /\ (last.op \in {"decorator", "deferred"} /\ last.wrapper = NoWrapper) =>
          /\ last.error = ""
          /\ last.returned = "deferred"
          /\ deferred.held
          /\ deferred.given = [target |-> last.target, defaults |-> last.defaults]
          /\ BoundTarget(deferred.keywords) = last.target
          /\ BoundDefaults(deferred.keywords) = last.defaults
    /\ (last.op = "deferred" /\ last.wrapper # NoWrapper) =>
          LET once == DecoratorBody(last.wrapper, last.target, last.defaults) IN
          /\ last.error = once.error
          /\ last.named = once.named
          /\ last.returned = once.returned
          /\ last.returned # "deferred"
          /\ last.error = "" => dec = once.decorator

\* C8 witness: the deferred builder of target 200 and {a: 1}, called with
\* behavior (a)
C8_Witness ==
    /\ last.op = "deferred" /\ last.wrapper = "one"
    /\ last.target = 200 /\ DOMAIN last.defaults = {"a"}
    /\ dec.shape = "B" /\ dec.target = 200
    /\ dec.default_params = [n \in {"a"} |-> 1]

\* C9: the decorator is of Shape B exactly when the behavior declares more
\* than the four fixed parameters, of Shape A otherwise; a Shape A decorator
\* applied to a function returns at once a construct of that function and
\* the behavior, with no parameter set
C9_Shape ==
    /\ dec.shape # "none" =>
          (dec.shape = "B" <=> Len(getargspec(dec.wrapper)) > 4)
    /\ dec.shape # "none" =>
          (dec.shape = "A" <=> Len(getargspec(dec.wrapper)) <= 4)
    /\ last.op = "_wrapper" =>
          /\ dec.shape = "A"
          /\ last.error = "" /\ last.returned = "construct"
          /\ Latest.wrapped = last.func
          /\ Latest.wrapper = dec.wrapper
          /\ Latest.params = NoParams
    /\ last.op = "inner" => dec.shape = "B"

\* C9 witness: the decorator of the four-parameter behavior applied to
\* function 101
C9_Witness ==
    /\ last.op = "_wrapper" /\ last.wrapper = "plain" /\ last.func = 101
    /\ dec.shape = "A"
    /\ Latest.wrapped = 101 /\ Latest.params = NoParams

\* C10: a Shape B decorator applied bare to a function yields no construct:
\* the call returns an inner decorator (the function taken as the value of
\* the first parameter) or fails; a construct is added only by the
\* application of an inner decorator that a parameter-collecting call
\* returned before, and it wraps the function that one is applied to
C10_TwoSteps ==
    [][/\ last'.op = "_partial" =>
             /\ last'.returned \in {"inner", "none"}
             /\ Len(constructs') <= Len(constructs)
             /\ (last'.error = "" /\ last'.args # << >>) =>
                    inner'.params.value[dec.expected_names[1]] = last'.args[1]
       /\ Len(constructs') > Len(constructs) =>
             /\ inner.held
             /\ last'.op = "inner"
             /\ constructs' = Append(constructs, constructs'[Len(constructs')])
             /\ constructs'[Len(constructs')].wrapped = last'.func
             /\ constructs'[Len(constructs')].params = inner.params]_vars

\* C10 witness: the decorator of behavior (a, b) applied bare to function
\* 100: an inner decorator with a = 100, and still no construct
C10_Witness ==
    /\ last.op = "_partial" /\ last.args = <<100>> /\ last.kwargs = EmptyDict
    /\ last.returned = "inner"
    /\ inner.params.value["a"] = 100
    /\ constructs = << >>

====
